---- MODULE Spec2Model ----
(***************************************************************************)
(* A model of firebase_admin/db.py: query construction (Reference.order_by_*,*)
(* Query.__init__, _parse_path), query execution (Query.run) and the       *)
(* client-side result sorter (_Sorter, _SortEntry).                        *)
(*                                                                         *)
(* Python values are tagged records [t |-> type, v |-> payload]:           *)
(*   None            [t |-> "null",  v |-> 0]                              *)
(*   bool            [t |-> "bool",  v |-> TRUE / FALSE]                   *)
(*   int             [t |-> "int",   v |-> n]                              *)
(*   float           [t |-> "float", v |-> h]     the float h / 2          *)
(*   str             [t |-> "str",   v |-> sequence of characters]         *)
(*   dict            [t |-> "dict",  v |-> sequence of <<key, value>>]     *)
(*                   in iteration order, keys (character sequences) unique *)
(*   list            [t |-> "list",  v |-> sequence of values]             *)
(* A str is a sequence of one-character strings; Ord gives the code point  *)
(* that Python's string comparison uses.  int is Python 3's single integer *)
(* type (no separate long).                                                *)
(***************************************************************************)
EXTENDS Integers, Sequences, FiniteSets, TLC

VARIABLES
    method,     \* the method called last ("none" before any)
    arg,        \* the argument of the last order_by_* call (NoArg before any)
    query,      \* the Query the last order_by_* call returned, or NoQuery
    error,      \* the exception the last call raised, or "none"
    nrequests,  \* number of requests issued to the _Client so far
    last,       \* the last run() of the current Query: url, received, returned
    results,    \* _Sorter input: the decoded result (dict or list)
    order_by,   \* _Sorter input: the order key
    sorter,     \* the _Sorter object: dict_input, sort_entries
    output,     \* what _Sorter.get() returned
    resorted,   \* what sorting the round-tripped output returned
    compared,   \* three _SortEntry objects of one result shape
    cmp         \* cmp[i][j]: what compared[i]._compare(compared[j]) returned

vars == <<method, arg, query, error, nrequests, last, results, order_by, sorter, output,
          resorted, compared, cmp>>

queryVars == <<method, arg, query, error, nrequests, last>>
sortVars == <<results, order_by, sorter, output, resorted, compared, cmp>>

-----------------------------------------------------------------------------
(* Bounds of the model *)

\* longest order_by_child argument drawn from Alphabet
MaxPathLen == 3
\* number of run() calls a behaviour makes
MaxRequests == 2
\* longest list result handed to the sorter
MaxLen == 3
\* largest limit given to set_limit_first and set_limit_last
MaxLimit == 2

-----------------------------------------------------------------------------
(* Python values *)

PyNone == [t |-> "null", v |-> 0]
PyBool(b) == [t |-> "bool", v |-> b]
PyInt(n) == [t |-> "int", v |-> n]
\* the float h / 2
PyFloat(h) == [t |-> "float", v |-> h]
PyStr(s) == [t |-> "str", v |-> s]
PyDict(items) == [t |-> "dict", v |-> items]
PyList(elems) == [t |-> "list", v |-> elems]

\* isinstance(x, six.string_types)
IsString(x) == x.t = "str"
\* isinstance(x, dict)
IsDict(x) == x.t = "dict"
\* isinstance(x, list)
IsList(x) == x.t = "list"
\* isinstance(x, bool)
IsBool(x) == x.t = "bool"
\* isinstance(x, (int, float)): bool is a subclass of int
IsIntOrFloat(x) == x.t \in {"int", "float", "bool"}

\* Python truth value: None, False, 0, 0.0, "", {} and [] are false
Truthy(x) ==
    CASE x.t = "null" -> FALSE
      [] x.t = "bool" -> x.v
      [] x.t \in {"int", "float"} -> x.v # 0
      [] OTHER -> Len(x.v) > 0

\* code points of the characters the model uses
Ord(c) ==
    CASE c = "\"" -> 34
      [] c = "#" -> 35
      [] c = "$" -> 36
      [] c = "." -> 46
      [] c = "/" -> 47
      [] c = "[" -> 91
      [] c = "\\" -> 92
      [] c = "]" -> 93
      [] c = "a" -> 97
      [] c = "b" -> 98
      [] c = "c" -> 99
      [] c = "d" -> 100
      [] c = "e" -> 101
      [] c = "f" -> 102
      [] c = "i" -> 105
      [] c = "k" -> 107
      [] c = "l" -> 108
      [] c = "o" -> 111
      [] c = "p" -> 112
      [] c = "r" -> 114
      [] c = "t" -> 116
      [] c = "u" -> 117
      [] c = "v" -> 118
      [] c = "x" -> 120
      [] c = "y" -> 121

\* s < t for two str: lexicographic by code point, a proper prefix is smaller
RECURSIVE StrLess(_, _)
StrLess(s, t) ==
    IF Len(t) = 0 THEN FALSE
    ELSE IF Len(s) = 0 THEN TRUE
    ELSE IF s[1] # t[1] THEN Ord(s[1]) < Ord(t[1])
    ELSE StrLess(Tail(s), Tail(t))

\* str.split(sep): every piece between separators, empty pieces included
RECURSIVE SplitFrom(_, _, _, _)
SplitFrom(s, sep, i, piece) ==
    IF i > Len(s) THEN <<piece>>
    ELSE IF s[i] = sep THEN <<piece>> \o SplitFrom(s, sep, i + 1, <<>>)
    ELSE SplitFrom(s, sep, i + 1, Append(piece, s[i]))

Split(s, sep) == SplitFrom(s, sep, 1, <<>>)

\* sep.join(segments)
RECURSIVE Join(_, _)
Join(sep, segments) ==
    IF Len(segments) = 0 THEN <<>>
    ELSE IF Len(segments) = 1 THEN segments[1]
    ELSE segments[1] \o <<sep>> \o Join(sep, Tail(segments))

\* str.startswith(prefix) for a one-character prefix
StartsWith(s, c) == Len(s) > 0 /\ s[1] = c

\* ch in s
Contains(s, c) == \E i \in 1..Len(s) : s[i] = c

\* json.dumps(s) for a str: quoted, with '"' and '\' escaped
RECURSIVE JsonEscape(_)
JsonEscape(s) ==
    IF Len(s) = 0 THEN <<>>
    ELSE (IF s[1] \in {"\"", "\\"} THEN <<"\\", s[1]>> ELSE <<s[1]>>)
         \o JsonEscape(Tail(s))

JsonDumps(s) == <<"\"">> \o JsonEscape(s) \o <<"\"">>

-----------------------------------------------------------------------------
(* Module constants *)

_INVALID_PATH_CHARACTERS == <<"[", "]", ".", "#", "$">>

KEY == <<"$", "k", "e", "y">>
VALUE == <<"$", "v", "a", "l", "u", "e">>
PRIORITY == <<"$", "p", "r", "i", "o", "r", "i", "t", "y">>

_RESERVED_FILTERS == <<KEY, VALUE, PRIORITY>>

\* x in _RESERVED_FILTERS, for any Python value x
InReservedFilters(x) ==
    IsString(x) /\ \E i \in 1..Len(_RESERVED_FILTERS) : x.v = _RESERVED_FILTERS[i]

-----------------------------------------------------------------------------
(* Results of calls: a returned value or a raised exception *)

Return(x) == [raised |-> "none", value |-> x]
Raise(exc) == [raised |-> exc, value |-> PyNone]

-----------------------------------------------------------------------------
(* _parse_path *)

\* [seg for seg in segments if seg]
RECURSIVE NonEmpty(_)
NonEmpty(segments) ==
    IF Len(segments) = 0 THEN <<>>
    ELSE (IF Len(segments[1]) > 0 THEN <<segments[1]>> ELSE <<>>)
         \o NonEmpty(Tail(segments))

\* a faulty _parse_path: the empty segments are not filtered out
_parse_path_keeps_empty(path) ==
    IF ~IsString(path) THEN Raise("ValueError")
    ELSE IF \E i \in 1..Len(_INVALID_PATH_CHARACTERS) :
                Contains(path.v, _INVALID_PATH_CHARACTERS[i])
    THEN Raise("ValueError")
    ELSE Return(Split(path.v, "/"))

_parse_path(path) ==
    IF ~IsString(path) THEN Raise("ValueError")
    ELSE IF \E i \in 1..Len(_INVALID_PATH_CHARACTERS) :
                Contains(path.v, _INVALID_PATH_CHARACTERS[i])
    THEN Raise("ValueError")
    ELSE Return(NonEmpty(Split(path.v, "/")))

-----------------------------------------------------------------------------
(* _SortEntry *)

_type_none == 0
_type_bool_false == 1
_type_bool_true == 2
_type_numeric == 3
_type_string == 4
_type_object == 5

\* a faulty _get_index_type: the codes of False and True are swapped
_get_index_type_swapped(index) ==
    IF index.t = "null" THEN _type_none
    ELSE IF IsBool(index) /\ ~index.v THEN _type_bool_true
    ELSE IF IsBool(index) /\ index.v THEN _type_bool_false
    ELSE IF IsIntOrFloat(index) THEN _type_numeric
    ELSE IF IsString(index) THEN _type_string
    ELSE _type_object

_get_index_type(index) ==
    IF index.t = "null" THEN _type_none
    ELSE IF IsBool(index) /\ ~index.v THEN _type_bool_false
    ELSE IF IsBool(index) /\ index.v THEN _type_bool_true
    ELSE IF IsIntOrFloat(index) THEN _type_numeric
    ELSE IF IsString(index) THEN _type_string
    ELSE _type_object

\* dict.get(segment): the value stored under the key, None when absent
DictGet(d, segment) ==
    IF \E i \in 1..Len(d.v) : d.v[i][1] = segment
    THEN d.v[CHOOSE i \in 1..Len(d.v) : d.v[i][1] = segment][2]
    ELSE PyNone

\* the loop of _extract_child over the segments that are left
RECURSIVE ExtractLoop(_, _)
ExtractLoop(current, segments) ==
    IF Len(segments) = 0 THEN current
    ELSE IF IsDict(current)
    THEN ExtractLoop(DictGet(current, segments[1]), Tail(segments))
    ELSE PyNone

\* a faulty _extract_child: the path is looked up whole, not split
_extract_child_unsplit(value, path) == ExtractLoop(value, <<path>>)

_extract_child(value, path) == ExtractLoop(value, Split(path, "/"))

\* _SortEntry.__init__; key is a str (dict input) or an int (list input)
_SortEntry(key, value, by) ==
    LET index == IF by = KEY \/ by = PRIORITY THEN key
                 ELSE IF by = VALUE THEN value
                 ELSE _extract_child(value, by)
    IN  [key |-> key, value |-> value, index |-> index,
         index_type |-> _get_index_type(index)]

\* the number a Python int or float stands for, in halves
Halves(x) == IF x.t = "int" THEN 2 * x.v ELSE x.v

\* a < b for two numbers or two str (the operands _compare meets)
PyLess(a, b) ==
    CASE IsString(a) /\ IsString(b) -> StrLess(a.v, b.v)
      [] a.t \in {"int", "float"} /\ b.t \in {"int", "float"} -> Halves(a) < Halves(b)

\* a != b for two numbers or two str
PyNotEqual(a, b) ==
    CASE IsString(a) /\ IsString(b) -> a.v # b.v
      [] a.t \in {"int", "float"} /\ b.t \in {"int", "float"} -> Halves(a) # Halves(b)

\* a faulty _compare: indices of the same type are never compared
_compare_keys_only(self, other) ==
    LET same == self.index_type = other.index_type
        self_key == IF ~same THEN PyInt(self.index_type) ELSE self.key
        other_key == IF ~same THEN PyInt(other.index_type) ELSE other.key
    IN  IF PyLess(self_key, other_key) THEN -1
        ELSE IF PyLess(other_key, self_key) THEN 1
        ELSE 0

\* a faulty _compare: equal indices of numeric or string type are not
\* told apart by the keys
_compare_no_tie_break(self, other) ==
    LET same == self.index_type = other.index_type
        indexed == same /\ self.index_type \in {_type_numeric, _type_string}
        self_key == IF ~same THEN PyInt(self.index_type)
                    ELSE IF indexed THEN self.index ELSE self.key
        other_key == IF ~same THEN PyInt(other.index_type)
                     ELSE IF indexed THEN other.index ELSE other.key
    IN  IF PyLess(self_key, other_key) THEN -1
        ELSE IF PyLess(other_key, self_key) THEN 1
        ELSE 0

\* a faulty _compare: -1 unless the first is greater, tested with <=
_compare_less_or_equal(self, other) ==
    LET same == self.index_type = other.index_type
        byIndex == /\ same
                   /\ self.index_type \in {_type_numeric, _type_string}
                   /\ PyNotEqual(self.index, other.index)
        self_key == IF ~same THEN PyInt(self.index_type)
                    ELSE IF byIndex THEN self.index ELSE self.key
        other_key == IF ~same THEN PyInt(other.index_type)
                     ELSE IF byIndex THEN other.index ELSE other.key
    IN  IF ~PyLess(other_key, self_key) THEN -1
        ELSE IF PyLess(other_key, self_key) THEN 1
        ELSE 0

\* a faulty _compare: ties are broken by the keys in descending order
_compare_descending_keys(self, other) ==
    LET same == self.index_type = other.index_type
        byIndex == /\ same
                   /\ self.index_type \in {_type_numeric, _type_string}
                   /\ PyNotEqual(self.index, other.index)
        self_key == IF ~same THEN PyInt(self.index_type)
                    ELSE IF byIndex THEN self.index ELSE other.key
        other_key == IF ~same THEN PyInt(other.index_type)
                     ELSE IF byIndex THEN other.index ELSE self.key
    IN  IF PyLess(self_key, other_key) THEN -1
        ELSE IF PyLess(other_key, self_key) THEN 1
        ELSE 0

_compare(self, other) ==
    LET same == self.index_type = other.index_type
        byIndex == /\ same
                   /\ self.index_type \in {_type_numeric, _type_string}
                   /\ PyNotEqual(self.index, other.index)
        self_key == IF ~same THEN PyInt(self.index_type)
                    ELSE IF byIndex THEN self.index ELSE self.key
        other_key == IF ~same THEN PyInt(other.index_type)
                     ELSE IF byIndex THEN other.index ELSE other.key
    IN  IF PyLess(self_key, other_key) THEN -1
        ELSE IF PyLess(other_key, self_key) THEN 1
        ELSE 0

__lt__(self, other) == _compare(self, other) < 0

\* _compare(other) is 0: CPython keeps one object for the int 0
__eq__(self, other) == _compare(self, other) = 0

-----------------------------------------------------------------------------
(* sorted(entries): CPython's list sort for fewer than 64 elements, which   *)
(* finds the leading run, reverses it if strictly descending, and inserts   *)
(* the remaining elements by binary insertion; it compares with < only.     *)

RECURSIVE Reverse(_)
Reverse(s) == IF Len(s) = 0 THEN <<>> ELSE Append(Reverse(Tail(s)), s[1])

\* count_run: length of the run s[1..n], n >= 2 elements already in it
RECURSIVE CountRun(_, _, _)
CountRun(s, descending, n) ==
    IF n = Len(s) THEN n
    ELSE IF __lt__(s[n + 1], s[n]) = descending THEN CountRun(s, descending, n + 1)
    ELSE n

\* the binary search of binarysort: where pivot goes in the sorted s[l..r-1]
RECURSIVE BinarySearch(_, _, _, _)
BinarySearch(s, pivot, l, r) ==
    LET p == l + ((r - l) \div 2)
        l2 == IF __lt__(pivot, s[p]) THEN l ELSE p + 1
        r2 == IF __lt__(pivot, s[p]) THEN p ELSE r
    IN  IF l2 < r2 THEN BinarySearch(s, pivot, l2, r2) ELSE l2

\* binarysort: s[1..start-1] is sorted; insert s[start], s[start+1], ...
RECURSIVE BinarySort(_, _)
BinarySort(s, start) ==
    IF start > Len(s) THEN s
    ELSE LET l == BinarySearch(s, s[start], 1, start)
             moved == SubSeq(s, 1, l - 1) \o <<s[start]>> \o SubSeq(s, l, start - 1)
                      \o SubSeq(s, start + 1, Len(s))
         IN  BinarySort(moved, start + 1)

\* a faulty _Sorter.__init__: the entries are kept as they were received
Sorted_unsorted(entries) == entries

Sorted(entries) ==
    IF Len(entries) < 2 THEN entries
    ELSE LET descending == __lt__(entries[2], entries[1])
             n == CountRun(entries, descending, 2)
             run == SubSeq(entries, 1, n)
             rest == SubSeq(entries, n + 1, Len(entries))
         IN  BinarySort((IF descending THEN Reverse(run) ELSE run) \o rest, n + 1)

-----------------------------------------------------------------------------
(* _Sorter *)

\* _Sorter.__init__: the object, or ValueError for anything but dict or list
_Sorter(res, by) ==
    IF IsDict(res)
    THEN Return([dict_input |-> TRUE,
                 sort_entries |-> Sorted([i \in 1..Len(res.v) |->
                     _SortEntry(PyStr(res.v[i][1]), res.v[i][2], by)])])
    ELSE IF IsList(res)
    THEN Return([dict_input |-> FALSE,
                 sort_entries |-> Sorted([i \in 1..Len(res.v) |->
                     _SortEntry(PyInt(i - 1), res.v[i], by)])])
    ELSE Raise("ValueError")

\* a faulty get: a list result is made of the indices, not of the values
get_indices(self) ==
    IF self.dict_input
    THEN PyDict([i \in 1..Len(self.sort_entries) |->
                    <<self.sort_entries[i].key.v, self.sort_entries[i].value>>])
    ELSE PyList([i \in 1..Len(self.sort_entries) |-> self.sort_entries[i].index])

\* _Sorter.get: an OrderedDict (a dict in sorted order) or a list of values
get(self) ==
    IF self.dict_input
    THEN PyDict([i \in 1..Len(self.sort_entries) |->
                    <<self.sort_entries[i].key.v, self.sort_entries[i].value>>])
    ELSE PyList([i \in 1..Len(self.sort_entries) |-> self.sort_entries[i].value])

-----------------------------------------------------------------------------
(* Query *)

\* a faulty Query.__init__: a leading '/' is not rejected
Query_leading_slash(by, pathurl) ==
    IF ~Truthy(by) \/ ~IsString(by) THEN Raise("ValueError")
    ELSE IF InReservedFilters(by)
    THEN Return([_pathurl |-> pathurl, _order_by |-> by.v,
                 _params |-> [orderBy |-> JsonDumps(by.v)]])
    ELSE LET segments == _parse_path(by)
         IN  IF segments.raised # "none" THEN segments
             ELSE LET joined == Join("/", segments.value)
                  IN  Return([_pathurl |-> pathurl, _order_by |-> joined,
                              _params |-> [orderBy |-> JsonDumps(joined)]])

\* Query.__init__(order_by=by, client=..., pathurl=pathurl)
Query(by, pathurl) ==
    IF ~Truthy(by) \/ ~IsString(by) THEN Raise("ValueError")
    ELSE IF InReservedFilters(by)
    THEN Return([_pathurl |-> pathurl, _order_by |-> by.v,
                 _params |-> [orderBy |-> JsonDumps(by.v)]])
    ELSE IF StartsWith(by.v, "/") THEN Raise("ValueError")
    ELSE LET segments == _parse_path(by)
         IN  IF segments.raised # "none" THEN segments
             ELSE LET joined == Join("/", segments.value)
                  IN  Return([_pathurl |-> pathurl, _order_by |-> joined,
                              _params |-> [orderBy |-> JsonDumps(joined)]])

\* isinstance(x, int): bool is a subclass of int
IsInt(x) == x.t \in {"int", "bool"}

\* the integer an int or a bool is in arithmetic and comparisons
IntOf(x) == IF x.t = "bool" THEN (IF x.v THEN 1 ELSE 0) ELSE x.v

\* a faulty set_limit_last: it looks for its own parameter, not for the
\* first limit
set_limit_last_checks_itself(self, limit) ==
    IF ~IsInt(limit) \/ IntOf(limit) < 0 THEN Raise("ValueError")
    ELSE IF "limitToLast" \in DOMAIN self._params THEN Raise("ValueError")
    ELSE Return([self EXCEPT !._params = ("limitToLast" :> limit) @@ self._params])

\* Query.set_limit_first(limit): the Query with the parameter set, or ValueError
set_limit_first(self, limit) ==
    IF ~IsInt(limit) \/ IntOf(limit) < 0 THEN Raise("ValueError")
    ELSE IF "limitToLast" \in DOMAIN self._params THEN Raise("ValueError")
    ELSE Return([self EXCEPT !._params = ("limitToFirst" :> limit) @@ self._params])

\* Query.set_limit_last(limit)
set_limit_last(self, limit) ==
    IF ~IsInt(limit) \/ IntOf(limit) < 0 THEN Raise("ValueError")
    ELSE IF "limitToFirst" \in DOMAIN self._params THEN Raise("ValueError")
    ELSE Return([self EXCEPT !._params = ("limitToLast" :> limit) @@ self._params])

\* the decimal digits of a natural number
RECURSIVE Decimal(_)
Decimal(n) ==
    LET digit == <<"0", "1", "2", "3", "4", "5", "6", "7", "8", "9">>[(n % 10) + 1]
    IN  IF n < 10 THEN <<digit>> ELSE Decimal(n \div 10) \o <<digit>>

\* '{0}'.format(x) for an int or a bool
Format(x) ==
    IF x.t = "bool"
    THEN (IF x.v THEN <<"T", "r", "u", "e">> ELSE <<"F", "a", "l", "s", "e">>)
    ELSE Decimal(x.v)

\* sorted(self._params): the names of the limit and order parameters in
\* sorted order, with their characters
ParamNames ==
    << <<"limitToFirst", <<"l", "i", "m", "i", "t", "T", "o", "F", "i", "r", "s", "t">> >>,
       <<"limitToLast", <<"l", "i", "m", "i", "t", "T", "o", "L", "a", "s", "t">> >>,
       <<"orderBy", <<"o", "r", "d", "e", "r", "B", "y">> >> >>

\* Query.querystr: 'key=value' for each parameter in sorted key order,
\* joined by '&'
querystr(self) ==
    LET present == SelectSeq(ParamNames, LAMBDA n : n[1] \in DOMAIN self._params)
        text(n) == IF n[1] = "orderBy" THEN self._params[n[1]]
                   ELSE Format(self._params[n[1]])
    IN  Join("&", [i \in 1..Len(present) |-> present[i][2] \o <<"=">> \o text(present[i])])

\* a faulty run: results ordered by priority are sorted too
run_sorts_priority(self, result) ==
    LET url == self._pathurl \o <<"?">> \o querystr(self)
    IN  IF IsDict(result) \/ IsList(result)
        THEN [url |-> url, received |-> result, sorted |-> TRUE,
              returned |-> get(_Sorter(result, self._order_by).value)]
        ELSE [url |-> url, received |-> result, sorted |-> FALSE,
              returned |-> result]

\* Query.run once the client has answered with result: the request url,
\* whether a _Sorter was made, and the value returned
run(self, result) ==
    LET url == self._pathurl \o <<"?">> \o querystr(self)
    IN  IF (IsDict(result) \/ IsList(result)) /\ self._order_by # PRIORITY
        THEN [url |-> url, received |-> result, sorted |-> TRUE,
              returned |-> get(_Sorter(result, self._order_by).value)]
        ELSE [url |-> url, received |-> result, sorted |-> FALSE,
              returned |-> result]

-----------------------------------------------------------------------------
(* Reference: one node, /a *)

_pathurl == <<"/", "a">>

\* Reference._add_suffix()
_add_suffix == _pathurl \o <<".", "j", "s", "o", "n">>

\* Reference.order_by_child(path)
order_by_child(path) ==
    IF InReservedFilters(path) THEN Raise("ValueError")
    ELSE Query(path, _add_suffix)

order_by_key == Query(PyStr(KEY), _add_suffix)
order_by_value == Query(PyStr(VALUE), _add_suffix)
order_by_priority == Query(PyStr(PRIORITY), _add_suffix)

-----------------------------------------------------------------------------
(* Inputs *)

X == <<"x">>
Y == <<"y">>
XY == <<"x", "/", "y">>

\* every str of at most n characters over the alphabet
Alphabet == {"x", "/", "$"}
Strings(n) == UNION {[1..k -> Alphabet] : k \in 0..n}

\* arguments given to order_by_child
ChildArgs ==
    {PyStr(p) : p \in Strings(MaxPathLen)}
    \cup {PyStr(KEY), PyStr(VALUE), PyStr(PRIORITY)}
    \cup {PyStr(XY), PyStr(<<"x", ".", "y">>), PyStr(<<"[", "x", "]">>),
          PyStr(<<"x", "#">>), PyStr(<<"x", "\"", "\\">>),
          PyStr(<<"x", "/", "/", "y", "/">>)}
    \cup {PyNone, PyInt(0), PyInt(5), PyBool(TRUE), PyList(<<>>), PyList(<<PyStr(X)>>)}

\* a JSON object with the given items, in the order received
Obj1(k, v) == PyDict(<< <<k, v>> >>)

\* results the server answers a query with
FetchResults ==
    {PyNone, PyBool(FALSE), PyInt(7), PyFloat(3), PyStr(<<"a">>),
     PyDict(<<>>), PyList(<<>>),
     PyDict(<< <<<<"c">>, PyInt(1)>>, <<<<"a">>, PyInt(2)>>, <<<<"b">>, PyInt(3)>> >>),
     PyDict(<< <<<<"b">>, Obj1(X, PyInt(2))>>, <<<<"a">>, Obj1(X, PyInt(1))>>,
               <<<<"c">>, PyInt(1)>> >>),
     PyList(<<PyInt(2), PyInt(1), PyNone>>),
     PyList(<<Obj1(X, PyInt(3)), Obj1(X, PyInt(1)), Obj1(X, PyInt(2))>>)}

-----------------------------------------------------------------------------
(* The query life cycle: order_by_* calls on the Reference, run() calls on   *)
(* the Query they returned                                                  *)

NoArg == [t |-> "noarg", v |-> 0]
NoQuery == [none |-> TRUE]
NoRun == [none |-> TRUE]
NoSorter == [none |-> TRUE]
NoOutput == [t |-> "nothing", v |-> 0]

Init ==
    /\ method = "none"
    /\ arg = NoArg
    /\ query = NoQuery
    /\ error = "none"
    /\ nrequests = 0
    /\ last = NoRun
    /\ results = NoOutput
    /\ order_by = <<>>
    /\ sorter = NoSorter
    /\ output = NoOutput
    /\ resorted = NoOutput
    /\ compared = <<>>
    /\ cmp = <<>>

\* the caller receives the Query or the exception of a call that builds a
\* Query; the Query has not run, and no request is made
Returns(call) ==
    /\ query' = IF call.raised = "none" THEN call.value ELSE NoQuery
    /\ error' = call.raised
    /\ last' = NoRun

OrderByChild(path) ==
    /\ method' = "order_by_child"
    /\ arg' = path
    /\ Returns(order_by_child(path))
    /\ UNCHANGED <<nrequests, sortVars>>

OrderByKey ==
    /\ method' = "order_by_key"
    /\ arg' = NoArg
    /\ Returns(order_by_key)
    /\ UNCHANGED <<nrequests, sortVars>>

OrderByValue ==
    /\ method' = "order_by_value"
    /\ arg' = NoArg
    /\ Returns(order_by_value)
    /\ UNCHANGED <<nrequests, sortVars>>

OrderByPriority ==
    /\ method' = "order_by_priority"
    /\ arg' = NoArg
    /\ Returns(order_by_priority)
    /\ UNCHANGED <<nrequests, sortVars>>

\* query.run(): one GET to the client, answered with result
Run(result) ==
    /\ query # NoQuery
    /\ nrequests < MaxRequests
    /\ method' = "run"
    /\ nrequests' = nrequests + 1
    /\ last' = run(query, result)
    /\ error' = "none"
    /\ UNCHANGED <<arg, query, sortVars>>

Next ==
    \/ \E path \in ChildArgs : OrderByChild(path)
    \/ OrderByKey
    \/ OrderByValue
    \/ OrderByPriority
    \/ \E result \in FetchResults : Run(result)

Spec == Init /\ [][Next]_vars

-----------------------------------------------------------------------------
(* The sorter on its own: a result and an order key are given, _Sorter sorts *)
(* the result, and the sorted result is sorted once more                    *)

\* keys of the dict results
Keys == {<<"a">>, <<"a", "b">>, <<"b">>}

\* values of the entries, chosen for the order key they are sorted under
ValuesByKey == {PyInt(1), PyStr(<<"a">>)}

ValuesByValue ==
    {PyNone, PyBool(FALSE), PyBool(TRUE), PyInt(1), PyFloat(2), PyFloat(3),
     PyStr(<<"a">>), PyStr(<<"a", "b">>), PyDict(<<>>), PyList(<<>>)}

ValuesByX ==
    {PyInt(1), PyDict(<<>>), Obj1(Y, PyInt(1)), Obj1(X, PyNone),
     Obj1(X, PyBool(TRUE)), Obj1(X, PyInt(1)), Obj1(X, PyFloat(2)),
     Obj1(X, PyStr(<<"b">>)), Obj1(X, Obj1(Y, PyInt(1)))}

ValuesByXY ==
    {PyInt(1), Obj1(X, PyInt(1)), Obj1(X, PyDict(<<>>)), Obj1(Y, PyInt(1)),
     Obj1(X, Obj1(Y, PyInt(1))), Obj1(X, Obj1(Y, PyInt(2))),
     Obj1(X, Obj1(Y, PyStr(<<"a">>))), Obj1(X, PyList(<<PyInt(1)>>))}

\* the list results of at most MaxLen values
Lists(V) == {PyList(vs) : vs \in UNION {[1..n -> V] : n \in 0..MaxLen}}

\* the sequences of distinct keys: the orders a dict can be received in
KeySeqs ==
    {ks \in UNION {[1..n -> Keys] : n \in 0..Cardinality(Keys)} :
        \A i, j \in 1..Len(ks) : i # j => ks[i] # ks[j]}

Dicts(V) ==
    UNION {{PyDict([i \in 1..Len(ks) |-> <<ks[i], vs[i]>>]) : vs \in [1..Len(ks) -> V]} :
           ks \in KeySeqs}

Bijections(n) == {f \in [1..n -> 1..n] : \A i, j \in 1..n : i # j => f[i] # f[j]}

\* one value of each index type, lowest rank first
Mixed == <<PyNone, PyBool(FALSE), PyBool(TRUE), PyInt(3), PyStr(<<"a">>), PyDict(<<>>)>>

MixedLists == {PyList([i \in 1..Len(Mixed) |-> Mixed[f[i]]]) : f \in Bijections(Len(Mixed))}

TiedDict == PyDict(<< <<<<"b">>, PyInt(5)>>, <<<<"a">>, PyInt(5)>> >>)

ChildList == PyList(<<Obj1(X, PyInt(3)), Obj1(X, PyInt(1)), Obj1(X, PyInt(2))>>)

\* the order key a Query built from the order_by_child argument holds
ChildKey(path) == order_by_child(PyStr(path)).value._order_by

\* <<result, order key>> pairs handed to _Sorter
SortCases ==
    ((Dicts(ValuesByKey) \cup Lists(ValuesByKey)) \X {order_by_key.value._order_by})
    \cup ((Dicts(ValuesByValue) \cup Lists(ValuesByValue) \cup MixedLists \cup {TiedDict})
          \X {order_by_value.value._order_by})
    \cup ((Dicts(ValuesByX) \cup Lists(ValuesByX) \cup {ChildList}) \X {ChildKey(X)})
    \cup ((Dicts(ValuesByXY) \cup Lists(ValuesByXY)) \X {ChildKey(XY)})

InitSort ==
    /\ method = "none"
    /\ arg = NoArg
    /\ query = NoQuery
    /\ error = "none"
    /\ nrequests = 0
    /\ last = NoRun
    /\ \E c \in SortCases : results = c[1] /\ order_by = c[2]
    /\ sorter = NoSorter
    /\ output = NoOutput
    /\ resorted = NoOutput
    /\ compared = <<>>
    /\ cmp = <<>>

\* _Sorter(results, order_by).get(), as run() calls it
Sort ==
    /\ sorter = NoSorter
    /\ sorter' = _Sorter(results, order_by).value
    /\ output' = get(sorter')
    /\ UNCHANGED <<queryVars, results, order_by, resorted, compared, cmp>>

\* the returned value handed to _Sorter again: an OrderedDict is a dict, and
\* enumerate() numbers a list's values from 0
Resort ==
    /\ output # NoOutput
    /\ resorted = NoOutput
    /\ resorted' = get(_Sorter(output, order_by).value)
    /\ UNCHANGED <<queryVars, results, order_by, sorter, output, compared, cmp>>

NextSort == Sort \/ Resort

SpecSort == InitSort /\ [][NextSort]_vars

-----------------------------------------------------------------------------
(* What the claims speak of *)

\* the rank of an index value: null < false < true < numeric < string < other
RankOf(index) ==
    CASE index.t = "null" -> 0
      [] index.t = "bool" /\ ~index.v -> 1
      [] index.t = "bool" /\ index.v -> 2
      [] index.t \in {"int", "float"} -> 3
      [] index.t = "str" -> 4
      [] OTHER -> 5

\* the entries of the sorted result, first to last
SortedEntries == sorter.sort_entries

Positions == 1..Len(SortedEntries)

\* the value of the i-th entry of a dict or list result
ValueAt(res, i) == IF res.t = "dict" THEN res.v[i][2] ELSE res.v[i]

\* both indices numbers, or both strings, and different
Unequal(a, b) ==
    \/ a.t = "str" /\ b.t = "str" /\ a.v # b.v
    \/ a.t \in {"int", "float"} /\ b.t \in {"int", "float"} /\ Halves(a) # Halves(b)

\* natural order of two numbers or of two strings
NaturalLess(a, b) ==
    IF a.t = "str" THEN StrLess(a.v, b.v) ELSE Halves(a) < Halves(b)

\* ascending order of two keys: names of a dict, positions of a list
KeyLess(a, b) == IF a.t = "str" THEN StrLess(a.v, b.v) ELSE a.v < b.v

\* C1: in a sorted result no entry of a higher index rank precedes one of a
\* lower rank, each entry's index type being the rank of its index; the six
\* mixed values sorted by value come out as null, false, true, 3, "a", {}
\* whatever order they were received in.
C1_RankOrder ==
    sorter # NoSorter =>
        /\ \A i, j \in Positions :
              i < j => RankOf(SortedEntries[i].index) <= RankOf(SortedEntries[j].index)
        /\ \A i \in Positions :
              SortedEntries[i].index_type = RankOf(SortedEntries[i].index)
        /\ (results \in MixedLists /\ order_by = VALUE) => output = PyList(Mixed)

C1_Witness ==
    /\ sorter # NoSorter
    /\ order_by = VALUE
    /\ results = PyList(<<PyStr(<<"a">>), PyDict(<<>>), PyInt(3), PyBool(TRUE),
                          PyNone, PyBool(FALSE)>>)
    /\ output = PyList(Mixed)

\* C2: two entries of a sorted result whose indices are both numbers or both
\* strings, and unequal, stand in the natural order of their indices,
\* whatever their keys.
C2_IndexOrder ==
    sorter # NoSorter =>
        \A i, j \in Positions :
            (i < j /\ Unequal(SortedEntries[i].index, SortedEntries[j].index))
                => NaturalLess(SortedEntries[i].index, SortedEntries[j].index)

\* two numeric indices in ascending order although their keys are descending
C2_Witness ==
    /\ sorter # NoSorter
    /\ \E i, j \in Positions :
          /\ i < j
          /\ RankOf(SortedEntries[i].index) = 3
          /\ Unequal(SortedEntries[i].index, SortedEntries[j].index)
          /\ KeyLess(SortedEntries[j].key, SortedEntries[i].key)

\* C3: two entries of a sorted result with the same index rank, and either
\* equal indices or a rank of null, false, true or composite, stand in
\* ascending order of their keys; {"b": 5, "a": 5} by value gives a, b.
C3_KeyTieBreak ==
    sorter # NoSorter =>
        /\ \A i, j \in Positions :
              ( /\ i < j
                /\ RankOf(SortedEntries[i].index) = RankOf(SortedEntries[j].index)
                /\ ~Unequal(SortedEntries[i].index, SortedEntries[j].index) )
                  => KeyLess(SortedEntries[i].key, SortedEntries[j].key)
        /\ (results = TiedDict /\ order_by = VALUE)
              => output = PyDict(<< <<<<"a">>, PyInt(5)>>, <<<<"b">>, PyInt(5)>> >>)

C3_Witness ==
    /\ results = TiedDict
    /\ order_by = VALUE
    /\ output = PyDict(<< <<<<"a">>, PyInt(5)>>, <<<<"b">>, PyInt(5)>> >>)

\* C4: run() returns the fetched value itself, in the order received and
\* with no _Sorter made, when the order key is $priority (dict and list
\* results alike) or the fetched value is a scalar or null.
C4_Passthrough ==
    (last # NoRun /\ (query._order_by = PRIORITY \/ last.received.t \notin {"dict", "list"}))
        => (last.returned = last.received /\ ~last.sorted)

\* {"c": 1, "a": 2, "b": 3} fetched under $priority comes back as c, a, b
C4_Witness ==
    /\ last # NoRun
    /\ query._order_by = PRIORITY
    /\ last.received = PyDict(<< <<<<"c">>, PyInt(1)>>, <<<<"a">>, PyInt(2)>>,
                                 <<<<"b">>, PyInt(3)>> >>)
    /\ last.returned = last.received

\* the segments of the child paths the sorter is given
ChildSegments == IF order_by = X THEN <<X>> ELSE <<X, Y>>

\* the value reached by following the segments through nested objects, null
\* once the value at hand is no object or lacks the segment
RECURSIVE Walk(_, _)
Walk(value, segments) ==
    IF segments = <<>> THEN value
    ELSE IF value.t = "dict" /\ \E i \in 1..Len(value.v) : value.v[i][1] = segments[1]
    THEN Walk(value.v[CHOOSE i \in 1..Len(value.v) : value.v[i][1] = segments[1]][2],
              Tail(segments))
    ELSE PyNone

\* C5: under a child path the index of an entry is the value its segments
\* lead to through nested objects, null where the walk meets a non-object
\* or a missing key; the entries with a null index precede all others.
C5_ChildIndex ==
    (sorter # NoSorter /\ order_by \notin {KEY, VALUE, PRIORITY}) =>
        /\ \A i \in Positions :
              SortedEntries[i].index = Walk(SortedEntries[i].value, ChildSegments)
        /\ \A i, j \in Positions :
              (SortedEntries[i].index = PyNone /\ SortedEntries[j].index # PyNone) => i < j

\* a two-segment path: an entry whose walk stops at a non-object was
\* received after an entry with an index, and is sorted before it
C5_Witness ==
    /\ sorter # NoSorter
    /\ order_by = XY
    /\ Len(results.v) >= 2
    /\ Walk(ValueAt(results, 1), <<X, Y>>) # PyNone
    /\ ValueAt(results, 2) = Obj1(X, PyInt(1))
    /\ SortedEntries[1].value = Obj1(X, PyInt(1))
    /\ SortedEntries[1].index = PyNone

\* how many times x occurs in the sequence s
Count(s, x) == Cardinality({i \in 1..Len(s) : s[i] = x})

\* C6: a sorted dict is a dict of the same key-value pairs, each key once,
\* and a sorted list is a list of the same values, each as often as
\* received, without the positions; both in the order of the sorted entries,
\* in which no entry is less than one before it.
C6_SamePairs ==
    sorter # NoSorter =>
        /\ output.t = results.t
        /\ Len(output.v) = Len(results.v)
        /\ \A i \in 1..Len(output.v) : Count(output.v, output.v[i]) = Count(results.v, output.v[i])
        /\ \A i \in 1..Len(results.v) : Count(output.v, results.v[i]) = Count(results.v, results.v[i])
        /\ Len(SortedEntries) = Len(output.v)
        /\ \A i \in Positions :
              output.v[i] = IF results.t = "dict"
                            THEN <<SortedEntries[i].key.v, SortedEntries[i].value>>
                            ELSE SortedEntries[i].value
        /\ \A i, j \in Positions : i < j => ~__lt__(SortedEntries[j], SortedEntries[i])
        /\ (results = ChildList /\ order_by = X)
              => output = PyList(<<Obj1(X, PyInt(1)), Obj1(X, PyInt(2)), Obj1(X, PyInt(3))>>)

C6_Witness ==
    /\ results = ChildList
    /\ order_by = X
    /\ output = PyList(<<Obj1(X, PyInt(1)), Obj1(X, PyInt(2)), Obj1(X, PyInt(3))>>)

\* C7: the sorted result, given to the sorter again under the same order
\* key, comes back as it is.
C7_Idempotent == resorted # NoOutput => resorted = output

\* a list whose sorting moved values and left two entries with a null index
\* next to each other, tied but for their positions
C7_Witness ==
    /\ resorted # NoOutput
    /\ results.t = "list"
    /\ output # results
    /\ Len(SortedEntries) >= 3
    /\ SortedEntries[1].index = PyNone
    /\ SortedEntries[2].index = PyNone
    /\ SortedEntries[1].value # SortedEntries[2].value
    /\ resorted = output

\* the dict d received in another order
Reordered(d, f) == PyDict([i \in 1..Len(d.v) |-> d.v[f[i]]])

\* C8: a dict received in any other order of its pairs is sorted into the
\* same sequence of pairs.
C8_OrderIndependent ==
    (sorter # NoSorter /\ results.t = "dict") =>
        \A f \in Bijections(Len(results.v)) :
            get(_Sorter(Reordered(results, f), order_by).value) = output

\* three pairs, two of them tied on the index, received out of order
C8_Witness ==
    /\ sorter # NoSorter
    /\ results.t = "dict"
    /\ Len(results.v) = 3
    /\ output # results
    /\ \E i \in 1..2 : ~Unequal(SortedEntries[i].index, SortedEntries[i + 1].index)
                       /\ SortedEntries[i].index_type = SortedEntries[i + 1].index_type

\* an order key that cannot be a child path: no string, empty, a reserved
\* token, or beginning with '/'
BadOrderKey(path) ==
    \/ path.t # "str"
    \/ path.v = <<>>
    \/ path.v \in {KEY, VALUE, PRIORITY}
    \/ path.v[1] = "/"

\* C9: order_by_child with an order key that is empty, no string, a
\* reserved token or begins with '/' raises ValueError, hands no Query to
\* the caller and issues no request to the client.
C9_BadKeyRejected ==
    [][\A path \in ChildArgs :
          (BadOrderKey(path) /\ OrderByChild(path))
              => (error' = "ValueError" /\ query' = NoQuery /\ nrequests' = nrequests)]_vars

\* order_by_child("$value") raised, with a request of an earlier Query on record
C9_Witness ==
    /\ arg = PyStr(VALUE)
    /\ error = "ValueError"
    /\ query = NoQuery
    /\ nrequests = 1

\* json.loads of an encoded str: the quotes dropped, the escapes undone
RECURSIVE Unescape(_)
Unescape(s) ==
    IF Len(s) = 0 THEN <<>>
    ELSE IF s[1] = "\\" THEN <<s[2]>> \o Unescape(SubSeq(s, 3, Len(s)))
    ELSE <<s[1]>> \o Unescape(Tail(s))

JsonLoads(s) == Unescape(SubSeq(s, 2, Len(s) - 1))

\* a child path in normal form: not empty, no leading, trailing or repeated
\* '/', none of the characters [ ] . # $, and no reserved token
NormalChildPath(o) ==
    /\ Len(o) > 0
    /\ o[1] # "/"
    /\ o[Len(o)] # "/"
    /\ \A i \in 1..(Len(o) - 1) : ~(o[i] = "/" /\ o[i + 1] = "/")
    /\ \A i \in 1..Len(o) : o[i] \notin {"[", "]", ".", "#", "$"}
    /\ o \notin {KEY, VALUE, PRIORITY}
    /\ o = Join("/", NonEmpty(Split(o, "/")))

\* C10: the order key of a Query is a reserved token or a child path in
\* normal form, made of the non-empty segments of the path given; the
\* orderBy parameter is its JSON encoding, which is what run() sends, and
\* the sorter is given the same order key.
C10_NormalizedKey ==
    query # NoQuery =>
        /\ query._order_by \in {KEY, VALUE, PRIORITY} \/ NormalChildPath(query._order_by)
        /\ arg # NoArg => query._order_by = Join("/", NonEmpty(Split(arg.v, "/")))
        /\ JsonLoads(query._params.orderBy) = query._order_by
        /\ last # NoRun =>
              /\ last.url = _add_suffix \o <<"?", "o", "r", "d", "e", "r", "B", "y", "=">>
                            \o query._params.orderBy
              /\ last.sorted => last.returned = get(_Sorter(last.received, query._order_by).value)

\* "x//y/" became x/y, was sent and was used to sort a dict by x/y
C10_Witness ==
    /\ arg = PyStr(<<"x", "/", "/", "y", "/">>)
    /\ query # NoQuery
    /\ query._order_by = XY
    /\ last # NoRun
    /\ last.sorted
    /\ last.received.t = "dict"
    /\ last.returned # last.received

-----------------------------------------------------------------------------
(* The life cycle with limits: set_limit_first and set_limit_last calls on   *)
(* the Query, between its construction and its runs                         *)

\* arguments given to set_limit_first and set_limit_last
LimitArgs ==
    {PyInt(n) : n \in -1..MaxLimit}
    \cup {PyBool(TRUE), PyNone, PyFloat(2), PyStr(<<"1">>)}

\* arguments given to order_by_child
LimitPaths == {PyStr(X), PyStr(XY), PyStr(<<"/", "x">>)}

\* results the server answers a query with limits with
LimitResults == {PyNone, PyList(<<PyInt(2), PyInt(1), PyNone>>)}

\* the setter returns the Query itself, with the parameter set, or raises
\* and leaves it alone
SetLimitFirst(limit) ==
    /\ query # NoQuery
    /\ method' = "set_limit_first"
    /\ query' = IF set_limit_first(query, limit).raised = "none"
                THEN set_limit_first(query, limit).value ELSE query
    /\ error' = set_limit_first(query, limit).raised
    /\ UNCHANGED <<arg, nrequests, last, sortVars>>

SetLimitLast(limit) ==
    /\ query # NoQuery
    /\ method' = "set_limit_last"
    /\ query' = IF set_limit_last(query, limit).raised = "none"
                THEN set_limit_last(query, limit).value ELSE query
    /\ error' = set_limit_last(query, limit).raised
    /\ UNCHANGED <<arg, nrequests, last, sortVars>>

NextLimit ==
    \/ \E path \in LimitPaths : OrderByChild(path)
    \/ OrderByKey
    \/ OrderByValue
    \/ OrderByPriority
    \/ \E limit \in LimitArgs : SetLimitFirst(limit)
    \/ \E limit \in LimitArgs : SetLimitLast(limit)
    \/ \E result \in LimitResults : Run(result)

SpecLimit == Init /\ [][NextLimit]_vars

\* the Query has the limit parameter
HasLimit(q, name) == name \in DOMAIN q._params

\* C11: the parameters of a Query never hold both limitToFirst and
\* limitToLast: a limit once set stays set, the other setter then raises
\* ValueError, as does either setter given anything but a non-negative
\* integer, and a setter that raises leaves the parameters as they were.
C11_OneLimit ==
    /\ [](query # NoQuery => ~(HasLimit(query, "limitToFirst") /\ HasLimit(query, "limitToLast")))
    /\ [][\A limit \in LimitArgs :
            /\ (SetLimitFirst(limit) /\ HasLimit(query, "limitToLast")) => error' = "ValueError"
            /\ (SetLimitLast(limit) /\ HasLimit(query, "limitToFirst")) => error' = "ValueError"
            /\ ((SetLimitFirst(limit) \/ SetLimitLast(limit))
                  /\ (limit.t \notin {"int", "bool"} \/ limit = PyInt(-1)))
                  => error' = "ValueError"
            /\ ((SetLimitFirst(limit) \/ SetLimitLast(limit)) /\ error' = "ValueError")
                  => query'._params = query._params
            /\ (SetLimitFirst(limit) \/ SetLimitLast(limit) \/ \E result \in LimitResults : Run(result))
                  => DOMAIN query._params \subseteq DOMAIN query'._params]_vars

\* set_limit_last raised on a Query that has run with limitToFirst=2
C11_Witness ==
    /\ method = "set_limit_last"
    /\ error = "ValueError"
    /\ query # NoQuery
    /\ HasLimit(query, "limitToFirst")
    /\ query._params.limitToFirst = PyInt(2)
    /\ last # NoRun
    /\ last.url = _add_suffix \o <<"?", "l", "i", "m", "i", "t", "T", "o", "F", "i", "r", "s", "t",
                                   "=", "2", "&", "o", "r", "d", "e", "r", "B", "y", "=">>
                  \o query._params.orderBy

-----------------------------------------------------------------------------
(* The comparator on its own: three entries built from results of one shape  *)
(* are compared with each other                                             *)

\* values of the entries compared under $value
ValuesCompared ==
    {PyNone, PyBool(FALSE), PyBool(TRUE), PyInt(1), PyFloat(2), PyFloat(3),
     PyStr(<<"a">>), PyStr(<<"a", "b">>), PyDict(<<>>), PyList(<<>>)}

\* values of the entries compared under the child path x
ChildCompared ==
    {PyInt(1), Obj1(X, PyInt(1)), Obj1(X, PyFloat(2)), Obj1(X, PyInt(2)),
     Obj1(X, Obj1(Y, PyInt(1))), Obj1(X, Obj1(Y, PyInt(2)))}

\* the keys of a dict's entries, and of a list's: its positions
StrKeys == {PyStr(k) : k \in Keys}
IntKeys == {PyInt(i) : i \in 0..(MaxLen - 1)}

\* the entries _Sorter.__init__ makes of such keys and values
EntriesOf(keys, V, by) == {_SortEntry(k, v, by) : k \in keys, v \in V}

EntrySets ==
    <<EntriesOf(StrKeys, ValuesCompared, VALUE), EntriesOf(IntKeys, ValuesCompared, VALUE),
      EntriesOf(StrKeys, ChildCompared, ChildKey(X)), EntriesOf(IntKeys, ChildCompared, ChildKey(X)),
      EntriesOf(StrKeys, {PyInt(1)}, KEY), EntriesOf(IntKeys, {PyInt(1)}, KEY)>>

InitCompare ==
    /\ method = "none"
    /\ arg = NoArg
    /\ query = NoQuery
    /\ error = "none"
    /\ nrequests = 0
    /\ last = NoRun
    /\ results = NoOutput
    /\ order_by = <<>>
    /\ sorter = NoSorter
    /\ output = NoOutput
    /\ resorted = NoOutput
    /\ \E n \in 1..Len(EntrySets) : compared \in [1..3 -> EntrySets[n]]
    /\ cmp = <<>>

\* every entry is compared with every entry
Compare ==
    /\ cmp = <<>>
    /\ cmp' = [i \in 1..3 |-> [j \in 1..3 |-> _compare(compared[i], compared[j])]]
    /\ UNCHANGED <<queryVars, results, order_by, sorter, output, resorted, compared>>

NextCompare == Compare

SpecCompare == InitCompare /\ [][NextCompare]_vars

\* C12: the comparator is a strict weak ordering of the compared of one
\* shape: if A is less than B then B is greater than A, if A is less than B
\* and B less than C then A is less than C, whatever branches decided, and A
\* equals B exactly when B equals A.
C12_StrictWeakOrder ==
    cmp # <<>> =>
        \A i, j, k \in 1..3 :
            /\ cmp[i][j] \in {-1, 0, 1}
            /\ cmp[i][j] < 0 => cmp[j][i] > 0
            /\ (cmp[i][j] < 0 /\ cmp[j][k] < 0) => cmp[i][k] < 0
            /\ (cmp[i][j] = 0 /\ cmp[j][k] = 0) => cmp[i][k] = 0
            /\ cmp[i][j] = 0 <=> cmp[j][i] = 0

\* A below B by rank, B below C by the key after equal numbers 1 and 1.0,
\* and A below C
C12_Witness ==
    /\ cmp # <<>>
    /\ compared[1].index_type < compared[2].index_type
    /\ compared[2].index = PyInt(1)
    /\ compared[3].index = PyFloat(2)
    /\ cmp[1][2] < 0
    /\ cmp[2][3] < 0
    /\ cmp[1][3] < 0

\* the same value: identical, or two numbers of the same magnitude (1 and 1.0)
SameValue(a, b) ==
    \/ a = b
    \/ a.t \in {"int", "float"} /\ b.t \in {"int", "float"} /\ Halves(a) = Halves(b)

\* C13, as first stated: two entries compare as equal only if their keys and
\* their index values agree; entries that differ in key or in index value
\* compare as strictly less or strictly greater.
C13_EqualOnlyIfSame ==
    cmp # <<>> =>
        \A i, j \in 1..3 :
            (cmp[i][j] = 0) =>
                /\ compared[i].key = compared[j].key
                /\ SameValue(compared[i].index, compared[j].index)

\* C13: two entries compare as equal exactly when their keys agree, their
\* indices have the same rank and, if that rank is numeric or string, the
\* indices are equal; entries that differ in key, in rank, or in a numeric or
\* string index compare as strictly less or strictly greater. Indices of the
\* null, boolean or composite rank are not looked at.
C13_EqualIffSameKeyAndOrder ==
    cmp # <<>> =>
        \A i, j \in 1..3 :
            LET A == compared[i]
                B == compared[j]
                agree == /\ A.key = B.key
                         /\ A.index_type = B.index_type
                         /\ A.index_type \in {_type_numeric, _type_string}
                               => ~Unequal(A.index, B.index)
            IN  /\ cmp[i][j] = 0 <=> agree
                /\ __eq__(A, B) <=> agree
                /\ ~agree => cmp[i][j] \in {-1, 1}

\* two entries with one key and two composite indices compared as equal
C13_Witness ==
    /\ cmp # <<>>
    /\ compared[1].key = compared[2].key
    /\ compared[1].index_type = _type_object
    /\ compared[2].index_type = _type_object
    /\ compared[1].index # compared[2].index
    /\ cmp[1][2] = 0
    /\ __eq__(compared[1], compared[2])

====
